---- MODULE Spec2Model ----
(***************************************************************************)
(* Phishing e-mail detection: the feature extractor (phishing_detector.py), *)
(* the detection entry points (detect_phishing.py), the /detect handler     *)
(* (app.py) and the files written by training (train_model.py).             *)
(*                                                                          *)
(* A Python str is a sequence of one-character strings.  A float that the   *)
(* code obtains as a quotient a / b is the pair <<a, b>>; spam_score, a     *)
(* multiple of 0.5, is the pair <<2 * spam_score, 2>>.  A dict is the       *)
(* sequence of its <<key, value>> items in insertion order.                 *)
(***************************************************************************)
EXTENDS Integers, Sequences, FiniteSets, TLC

VARIABLES
    suspicious_keywords,  \* PhishingDetector.suspicious_keywords
    suspicious_domains,   \* PhishingDetector.suspicious_domains
    model_file,           \* phishing_model.pkl: whether it exists, and the columns it was fitted on
    feature_names_file,   \* feature_names.pkl: whether it exists, and the saved list of names
    train_pc,             \* where train_phishing_model stands
    op,                   \* the operation that ran last, "idle" once its caller took the result
    req,                  \* its arguments
    ret,                  \* [raised |-> the exception it raised or "", value |-> what it returned]
    predicted,            \* the rows handed to the classifier by the last operation, in order
    loaded,               \* whether the last operation called joblib.load(model_path)
    hist,                 \* earlier extract_features calls a caller kept: their arguments and results
    before,               \* the vector of the body before a shortener URL was inserted into it
    pc,                   \* per thread: the position inside its extract_features call
    loc,                  \* per thread: the arguments and locals of the call
    th_ret                \* per thread: the feature vector returned

vars == <<suspicious_keywords, suspicious_domains, model_file, feature_names_file, train_pc,
          op, req, ret, predicted, loaded, hist, before, pc, loc, th_ret>>

(***************************************************************************)
(* Python str primitives                                                    *)
(***************************************************************************)
ToLower ==
    [c \in {"A","B","C","D","E","F","G","H","I","J","K","L","M",
            "N","O","P","Q","R","S","T","U","V","W","X","Y","Z"} |->
       CASE c = "A" -> "a" [] c = "B" -> "b" [] c = "C" -> "c" [] c = "D" -> "d"
         [] c = "E" -> "e" [] c = "F" -> "f" [] c = "G" -> "g" [] c = "H" -> "h"
         [] c = "I" -> "i" [] c = "J" -> "j" [] c = "K" -> "k" [] c = "L" -> "l"
         [] c = "M" -> "m" [] c = "N" -> "n" [] c = "O" -> "o" [] c = "P" -> "p"
         [] c = "Q" -> "q" [] c = "R" -> "r" [] c = "S" -> "s" [] c = "T" -> "t"
         [] c = "U" -> "u" [] c = "V" -> "v" [] c = "W" -> "w" [] c = "X" -> "x"
         [] c = "Y" -> "y" [] c = "Z" -> "z"]

UpperChars == DOMAIN ToLower

LowerChars == {ToLower[c] : c \in UpperChars}

DigitChars == {"0","1","2","3","4","5","6","7","8","9"}

\* c.lower()
LowerChar(c) == IF c \in UpperChars THEN ToLower[c] ELSE c

\* s.lower()
Lower(s) == [i \in 1..Len(s) |-> LowerChar(s[i])]

\* whether s[i .. i+len(p)-1] = p (1-based)
StartsAt(s, i, p) ==
    /\ i >= 1
    /\ i + Len(p) - 1 <= Len(s)
    /\ \A k \in 1..Len(p) : s[i + k - 1] = p[k]

\* whether s[i .. i+len(p)-1] = p under re.IGNORECASE (p is lower case)
StartsAtNoCase(s, i, p) ==
    /\ i >= 1
    /\ i + Len(p) - 1 <= Len(s)
    /\ \A k \in 1..Len(p) : LowerChar(s[i + k - 1]) = p[k]

\* p in s
Contains(s, p) == \E i \in 1..(Len(s) - Len(p) + 1) : StartsAt(s, i, p)

\* s.count(c) for a single character c
CountChar(s, c) == Cardinality({i \in 1..Len(s) : s[i] = c})

\* the last index k >= i - 1 such that every character of s[i .. k] is in cls
RECURSIVE RunEnd(_, _, _)
RunEnd(s, i, cls) ==
    IF i <= Len(s) /\ s[i] \in cls THEN RunEnd(s, i + 1, cls) ELSE i - 1

\* the last index k >= i - 1 such that no character of s[i .. k] is in cls
RECURSIVE RunEndNot(_, _, _)
RunEndNot(s, i, cls) ==
    IF i <= Len(s) /\ s[i] \notin cls THEN RunEndNot(s, i + 1, cls) ELSE i - 1

\* sum(len(x) for x in xs)
RECURSIVE SumLen(_)
SumLen(xs) == IF xs = <<>> THEN 0 ELSE Len(Head(xs)) + SumLen(Tail(xs))

Min(a, b) == IF a <= b THEN a ELSE b

(***************************************************************************)
(* Regular expressions of extract_features                                  *)
(***************************************************************************)
\* [a-zA-Z] | [0-9] | [$-_@.&+] | [!*\\(\\),] : the class [$-_] is the range
\* from "$" to "_" of the character table.  The alternative %[0-9a-fA-F]{2}
\* adds nothing: "%" and the hex digits are in the class already.
UrlChars ==
    LowerChars \cup UpperChars \cup DigitChars \cup
    {"$","%","&","'","(",")","*","+",",","-",".","/",":",";","<","=",">","?",
     "@","[","\\","]","^","_","!"}

\* re \s
SpaceChars == {" ", "\t", "\n", "\r"}

QuoteChars == {"\"", "'"}

\* The end of the match of url_pattern that starts at i, or 0 if none starts there:
\* http, an optional s, ://, then the longest run of one or more UrlChars.
MatchUrlAt(s, i) ==
    LET j == IF StartsAt(s, i, <<"h","t","t","p","s",":","/","/">>) THEN i + 8
             ELSE IF StartsAt(s, i, <<"h","t","t","p",":","/","/">>) THEN i + 7
             ELSE 0
        e == RunEnd(s, j, UrlChars)
    IN  IF j > 0 /\ e >= j THEN e ELSE 0

\* re.findall(url_pattern, s): leftmost matches, not overlapping
RECURSIVE FindUrls(_, _)
FindUrls(s, i) ==
    IF i > Len(s) THEN <<>>
    ELSE LET e == MatchUrlAt(s, i)
         IN  IF e > 0 THEN <<SubSeq(s, i, e)>> \o FindUrls(s, e + 1)
             ELSE FindUrls(s, i + 1)

\* The match of link_pattern <a\s+href=["\']([^"\']+)["\'] (re.IGNORECASE) that
\* starts at i: <<end of the match, first index of the group, last index of the
\* group>>, or <<0, 0, 0>>.
MatchLinkAt(s, i) ==
    LET w == RunEnd(s, i + 2, SpaceChars)      \* \s+
        q == w + 6                             \* the opening quote
        g == RunEndNot(s, q + 1, QuoteChars)   \* [^"\']+
    IN  IF /\ StartsAtNoCase(s, i, <<"<","a">>)
           /\ w >= i + 2
           /\ StartsAtNoCase(s, w + 1, <<"h","r","e","f","=">>)
           /\ q <= Len(s) /\ s[q] \in QuoteChars
           /\ g >= q + 1
           /\ g + 1 <= Len(s) /\ s[g + 1] \in QuoteChars
        THEN <<g + 1, q + 1, g>>
        ELSE <<0, 0, 0>>

\* re.findall(link_pattern, s, re.IGNORECASE): the captured hrefs
RECURSIVE FindLinks(_, _)
FindLinks(s, i) ==
    IF i > Len(s) THEN <<>>
    ELSE LET m == MatchLinkAt(s, i)
         IN  IF m[1] > 0 THEN <<SubSeq(s, m[2], m[3])>> \o FindLinks(s, m[1] + 1)
             ELSE FindLinks(s, i + 1)

\* The end of the match of img_pattern <img[^>]+> (re.IGNORECASE) at i, or 0
MatchImgAt(s, i) ==
    LET g == RunEndNot(s, i + 4, {">"})
    IN  IF /\ StartsAtNoCase(s, i, <<"<","i","m","g">>)
           /\ g >= i + 4
           /\ g + 1 <= Len(s)
        THEN g + 1
        ELSE 0

\* len(re.findall(img_pattern, s, re.IGNORECASE))
RECURSIVE CountImages(_, _)
CountImages(s, i) ==
    IF i > Len(s) THEN 0
    ELSE LET e == MatchImgAt(s, i)
         IN  IF e > 0 THEN 1 + CountImages(s, e + 1) ELSE CountImages(s, i + 1)

\* whether s[i ..] starts with n digits followed by a "."
DigitsDot(s, i, n) ==
    /\ i + n <= Len(s)
    /\ \A k \in 0..(n - 1) : s[i + k] \in DigitChars
    /\ s[i + n] = "."

\* re.search(ip_pattern, s) with ip_pattern \d{1,3}\.\d{1,3}\.\d{1,3}\.\d{1,3}
SearchIp(s) ==
    \E i \in 1..Len(s) : \E a, b, c \in 1..3 :
        /\ DigitsDot(s, i, a)
        /\ DigitsDot(s, i + a + 1, b)
        /\ DigitsDot(s, i + a + b + 2, c)
        /\ i + a + b + c + 3 <= Len(s)
        /\ s[i + a + b + c + 3] \in DigitChars

(***************************************************************************)
(* urllib.parse.urlparse(link).netloc, as line 113-114 uses it              *)
(***************************************************************************)
SchemeChars == LowerChars \cup UpperChars \cup DigitChars \cup {"+", "-", "."}

HexColonChars == DigitChars \cup {"a","b","c","d","e","f","A","B","C","D","E","F",":","."}

\* url.lstrip(C0 control or space)
RECURSIVE LStrip(_)
LStrip(s) == IF s # <<>> /\ Head(s) \in SpaceChars THEN LStrip(Tail(s)) ELSE s

\* url.replace(b, "") for b in "\t", "\r", "\n"
RemoveUnsafe(s) == SelectSeq(s, LAMBDA c : c \notin {"\t", "\r", "\n"})

\* the first index >= i of a character of cls in s, or Len(s) + 1
RECURSIVE FindFirst(_, _, _)
FindFirst(s, i, cls) ==
    IF i > Len(s) \/ s[i] \in cls THEN i ELSE FindFirst(s, i + 1, cls)

\* url with its scheme and the ":" after it removed, when it has a scheme
DropScheme(url) ==
    LET i == FindFirst(url, 1, {":"})
    IN  IF /\ i >= 2 /\ i <= Len(url)
           /\ url[1] \in LowerChars \cup UpperChars
           /\ \A k \in 1..(i - 1) : url[k] \in SchemeChars
        THEN SubSeq(url, i + 1, Len(url))
        ELSE url

\* [raises |-> whether urlparse raises ValueError, netloc |-> parsed.netloc]
UrlParse(link) ==
    LET url    == DropScheme(RemoveUnsafe(LStrip(link)))
        netloc == IF StartsAt(url, 1, <<"/","/">>)
                  THEN SubSeq(url, 3, FindFirst(url, 3, {"/", "?", "#"}) - 1)
                  ELSE <<>>
        open   == FindFirst(netloc, 1, {"["})
        close  == FindFirst(netloc, open + 1, {"]"})
        hasO   == \E k \in 1..Len(netloc) : netloc[k] = "["
        hasC   == \E k \in 1..Len(netloc) : netloc[k] = "]"
        \* _check_bracketed_host accepts only an IPv6 (or IPvFuture) literal; every
        \* such literal is made of hex digits, ":" and "."
        badHost == hasO /\ hasC /\
                   (close > Len(netloc) \/
                    \E k \in (open + 1)..(close - 1) : netloc[k] \notin HexColonChars)
    IN  [raises |-> (hasO # hasC) \/ badHost, netloc |-> netloc]

(***************************************************************************)
(* PhishingDetector.__init__ : the two lexicons                             *)
(***************************************************************************)
InitKeywords ==
    << <<"u","r","g","e","n","t">>, <<"v","e","r","i","f","y">>, <<"a","c","c","o","u","n","t">>, <<"s","u","s","p","e","n","d","e","d">>, <<"p","a","s","s","w","o","r","d">>,
       <<"c","l","i","c","k"," ","h","e","r","e">>, <<"v","e","r","i","f","y"," ","y","o","u","r"," ","a","c","c","o","u","n","t">>, <<"c","o","n","f","i","r","m"," ","y","o","u","r"," ","a","c","c","o","u","n","t">>,
       <<"u","p","d","a","t","e"," ","a","c","c","o","u","n","t">>, <<"w","i","n">>, <<"p","r","i","z","e">>, <<"f","r","e","e">>, <<"l","i","m","i","t","e","d"," ","t","i","m","e">>,
       <<"a","c","t"," ","n","o","w">>, <<"e","x","p","i","r","e","s">>, <<"c","l","i","c","k"," ","b","e","l","o","w">>, <<"s","e","c","u","r","e"," ","y","o","u","r"," ","a","c","c","o","u","n","t">>,
       <<"u","n","a","u","t","h","o","r","i","z","e","d"," ","l","o","g","i","n"," ","a","t","t","e","m","p","t">>, <<"v","e","r","i","f","y"," ","i","d","e","n","t","i","t","y">>,
       <<"a","c","c","o","u","n","t"," ","v","e","r","i","f","i","c","a","t","i","o","n"," ","r","e","q","u","i","r","e","d">> >>

InitDomains ==
    << <<"b","i","t",".","l","y">>, <<"t","i","n","y","u","r","l",".","c","o","m">>, <<"g","o","o",".","g","l">>, <<"t",".","c","o">>, <<"t","i","n","y",".","c","c">>,
       <<"i","s",".","g","d">>, <<"b","u","f","f",".","l","y">>, <<"o","w",".","l","y">> >>

\* the lists that are locals of extract_features
urgent_words == << <<"u","r","g","e","n","t">>, <<"i","m","m","e","d","i","a","t","e","l","y">>, <<"a","s","a","p">>, <<"c","r","i","t","i","c","a","l">>, <<"i","m","p","o","r","t","a","n","t">> >>

attachment_keywords == << <<"a","t","t","a","c","h","m","e","n","t">>, <<"a","t","t","a","c","h","e","d">>, <<"d","o","w","n","l","o","a","d">>, <<"f","i","l","e"," ","a","t","t","a","c","h","e","d">> >>

common_domains == << <<"g","m","a","i","l",".","c","o","m">>, <<"y","a","h","o","o",".","c","o","m">>, <<"o","u","t","l","o","o","k",".","c","o","m">>, <<"h","o","t","m","a","i","l",".","c","o","m">> >>

form_indicators == << <<"<","i","n","p","u","t">>, <<"<","f","o","r","m">>, <<"t","y","p","e","=","\"","p","a","s","s","w","o","r","d","\"">>, <<"t","y","p","e","=","\"","t","e","x","t","\"">> >>

\* any(w in s for w in words)
AnyIn(words, s) == \E k \in 1..Len(words) : Contains(s, words[k])

(***************************************************************************)
(* dict                                                                     *)
(***************************************************************************)
Keys(d) == [i \in 1..Len(d) |-> d[i][1]]

HasKey(d, k) == \E i \in 1..Len(d) : d[i][1] = k

\* d[k]
Get(d, k) == d[CHOOSE i \in 1..Len(d) : d[i][1] = k][2]

\* d[k] = v : a new key goes last, a known key keeps its place
Put(d, k, v) ==
    IF HasKey(d, k)
    THEN [i \in 1..Len(d) |-> IF d[i][1] = k THEN <<k, v>> ELSE d[i]]
    ELSE Append(d, <<k, v>>)

Bool01(b) == IF b THEN 1 ELSE 0

(***************************************************************************)
(* PhishingDetector.extract_features, section by section.  l holds the      *)
(* arguments and the locals full_text, features, urls, links.               *)
(***************************************************************************)
\* lines 44-47
Enter(email_content, email_subject, from_address, to_address) ==
    [email_content |-> email_content, email_subject |-> email_subject,
     from_address |-> from_address, to_address |-> to_address,
     full_text |-> Lower(email_subject \o <<" ">> \o email_content),
     features |-> <<>>, urls |-> <<>>, links |-> <<>>]

\* As section 1 counting the occurrences of the keywords, not the keywords found
Set_suspicious_keywords_count_Occurrences(l, keywords) ==
    [l EXCEPT !.features = Put(@, "suspicious_keywords_count",
        Cardinality({ki \in (1..Len(keywords)) \X (1..Len(l.full_text)) :
                        StartsAt(l.full_text, ki[2], keywords[ki[1]])}))]

\* 1. reads self.suspicious_keywords
Set_suspicious_keywords_count(l, keywords) ==
    [l EXCEPT !.features = Put(@, "suspicious_keywords_count",
        Cardinality({k \in 1..Len(keywords) : Contains(l.full_text, keywords[k])}))]

\* 2.
Set_urgent_language(l) ==
    [l EXCEPT !.features = Put(@, "urgent_language",
        Bool01(AnyIn(urgent_words, l.full_text)))]

\* 3.
Set_url_count(l) ==
    LET urls == FindUrls(l.full_text, 1)
    IN  [l EXCEPT !.urls = urls, !.features = Put(@, "url_count", Len(urls))]

\* As section 4 with a strict host test: the domain must follow "//" at once
Set_suspicious_urls_HostOnly(l, domains) ==
    [l EXCEPT !.features = Put(@, "suspicious_urls",
        Cardinality({u \in 1..Len(l.urls) :
            \E k \in 1..Len(domains) :
                StartsAt(l.urls[u], FindFirst(l.urls[u], 1, {"/"}) + 2, domains[k])}))]

\* 4. reads self.suspicious_domains
Set_suspicious_urls(l, domains) ==
    [l EXCEPT !.features = Put(@, "suspicious_urls",
        Cardinality({u \in 1..Len(l.urls) : AnyIn(domains, l.urls[u])}))]

\* 5.
Set_has_html(l) ==
    LET lc == Lower(l.email_content)
    IN  [l EXCEPT !.features = Put(@, "has_html",
            Bool01(Contains(lc, <<"<","h","t","m","l">>) \/ Contains(lc, <<"<","b","o","d","y">>)))]

\* 6.
Set_link_count(l) ==
    LET links == FindLinks(l.email_content, 1)
    IN  [l EXCEPT !.links = links, !.features = Put(@, "link_count", Len(links))]

\* As section 7 with its else branch lost: the key is set only when a URL was found
Set_avg_url_length_NoElse(l) ==
    IF l.urls # <<>>
    THEN [l EXCEPT !.features = Put(@, "avg_url_length", <<SumLen(l.urls), Len(l.urls)>>)]
    ELSE l

\* 7. the quotient sum / len as the pair <<sum, len>>; 0 is <<0, 1>>
Set_avg_url_length(l) ==
    [l EXCEPT !.features = Put(@, "avg_url_length",
        IF l.urls # <<>> THEN <<SumLen(l.urls), Len(l.urls)>> ELSE <<0, 1>>)]

\* 8.
Set_ip_in_url(l) ==
    [l EXCEPT !.features = Put(@, "ip_in_url",
        Bool01(\E k \in 1..Len(l.urls) : SearchIp(l.urls[k])))]

\* 9.
Set_subject_length(l) ==
    [l EXCEPT !.features = Put(@, "subject_length", Len(l.email_subject))]

\* 10.
Set_content_length(l) ==
    [l EXCEPT !.features = Put(@, "content_length", Len(l.email_content))]

\* 11. the quotient uppercase_count / len as a pair; 0 is <<0, 1>>
Set_uppercase_ratio(l) ==
    [l EXCEPT !.features = Put(@, "uppercase_ratio",
        IF l.email_content # <<>>
        THEN <<Cardinality({i \in 1..Len(l.email_content) : l.email_content[i] \in UpperChars}),
               Len(l.email_content)>>
        ELSE <<0, 1>>)]

\* 12.
Set_attachment_mention(l) ==
    [l EXCEPT !.features = Put(@, "attachment_mention",
        Bool01(AnyIn(attachment_keywords, l.full_text)))]

\* lines 112-118: whether this link adds 1 to mismatches
IsMismatch(link, full_text) ==
    LET parsed == UrlParse(link)
    IN  /\ ~parsed.raises
        /\ parsed.netloc # <<>>
        /\ ~Contains(full_text, Lower(parsed.netloc))

\* As section 13 with its else branch lost: the key is set only when a link was found
Set_link_mismatch_NoElse(l) ==
    IF l.links # <<>> /\ l.email_content # <<>>
    THEN [l EXCEPT !.features = Put(@, "link_mismatch",
            Min(Cardinality({k \in 1..Len(l.links) : IsMismatch(l.links[k], l.full_text)}), 5))]
    ELSE l

\* 13.
Set_link_mismatch(l) ==
    [l EXCEPT !.features = Put(@, "link_mismatch",
        IF l.links # <<>> /\ l.email_content # <<>>
        THEN Min(Cardinality({k \in 1..Len(l.links) : IsMismatch(l.links[k], l.full_text)}), 5)
        ELSE 0)]

\* 14.
Set_exclamation_count(l) ==
    [l EXCEPT !.features = Put(@, "exclamation_count",
        CountChar(l.email_content, "!") + CountChar(l.email_subject, "!"))]

\* from_address.split('@')[-1]
AfterLastAt(s) ==
    LET ats == {i \in 1..Len(s) : s[i] = "@"}
    IN  IF ats = {} THEN s
        ELSE SubSeq(s, (CHOOSE i \in ats : \A j \in ats : j <= i) + 1, Len(s))

\* As section 15 looking at the recipient when there is no sender
Set_is_common_domain_Recipient(l) ==
    LET from_address == IF l.from_address # <<>> THEN l.from_address ELSE l.to_address
        domain == IF Contains(from_address, <<"@">>) THEN AfterLastAt(from_address) ELSE <<>>
    IN  [l EXCEPT !.features = Put(@, "is_common_domain",
            IF from_address # <<>>
            THEN Bool01(\E k \in 1..Len(common_domains) : common_domains[k] = domain)
            ELSE 0)]

\* As section 15 comparing the domain without regard to case
Set_is_common_domain_AnyCase(l) ==
    LET from_address == l.from_address
        domain == IF Contains(from_address, <<"@">>) THEN AfterLastAt(from_address) ELSE <<>>
    IN  [l EXCEPT !.features = Put(@, "is_common_domain",
            IF from_address # <<>>
            THEN Bool01(\E k \in 1..Len(common_domains) : common_domains[k] = Lower(domain))
            ELSE 0)]

\* 15.
Set_is_common_domain(l) ==
    LET from_address == l.from_address
        domain == IF Contains(from_address, <<"@">>) THEN AfterLastAt(from_address) ELSE <<>>
    IN  [l EXCEPT !.features = Put(@, "is_common_domain",
            IF from_address # <<>>
            THEN Bool01(\E k \in 1..Len(common_domains) : common_domains[k] = domain)
            ELSE 0)]

\* 16.
Set_has_form(l) ==
    [l EXCEPT !.features = Put(@, "has_form",
        Bool01(AnyIn(form_indicators, Lower(l.email_content))))]

\* 17.
Set_image_count(l) ==
    [l EXCEPT !.features = Put(@, "image_count", CountImages(l.email_content, 1))]

\* As section 18 without the cap of line 149
Set_spam_score_Uncapped(l) ==
    LET f == l.features
        spam_score2 == 4 * Get(f, "suspicious_keywords_count")
                     + 3 * Get(f, "url_count")
                     + 6 * Get(f, "suspicious_urls")
                     + Get(f, "exclamation_count")
                     + 4 * Get(f, "urgent_language")
    IN  [l EXCEPT !.features = Put(@, "spam_score", <<spam_score2, 2>>)]

\* As section 18 with the weights of url_count and suspicious_urls exchanged
Set_spam_score_Swapped(l) ==
    LET f == l.features
        spam_score2 == 4 * Get(f, "suspicious_keywords_count")
                     + 6 * Get(f, "url_count")
                     + 3 * Get(f, "suspicious_urls")
                     + Get(f, "exclamation_count")
                     + 4 * Get(f, "urgent_language")
    IN  [l EXCEPT !.features = Put(@, "spam_score", <<Min(spam_score2, 100), 2>>)]

\* 18. in half units: 2 * (2k + 1.5u + 3s + 0.5e + 2g), capped at 2 * 50
Set_spam_score(l) ==
    LET f == l.features
        spam_score2 == 4 * Get(f, "suspicious_keywords_count")
                     + 3 * Get(f, "url_count")
                     + 6 * Get(f, "suspicious_urls")
                     + Get(f, "exclamation_count")
                     + 4 * Get(f, "urgent_language")
    IN  [l EXCEPT !.features = Put(@, "spam_score", <<Min(spam_score2, 100), 2>>)]

\* The call cut where it reads shared data: lines 44-53, 55-62, 64-68, 70-140, 142-151
BlockA(email_content, email_subject, from_address, to_address, keywords) ==
    Set_suspicious_keywords_count(
        Enter(email_content, email_subject, from_address, to_address), keywords)

BlockB(l) == Set_url_count(Set_urgent_language(l))

BlockC(l, domains) == Set_suspicious_urls(l, domains)

BlockD(l) ==
    Set_image_count(Set_has_form(Set_is_common_domain(Set_exclamation_count(
    Set_link_mismatch(Set_attachment_mention(Set_uppercase_ratio(Set_content_length(
    Set_subject_length(Set_ip_in_url(Set_avg_url_length(Set_link_count(
    Set_has_html(l)))))))))))))

BlockE(l) == Set_spam_score(l).features

\* extract_features run alone on a detector with the given lexicons
ExtractFeatures(keywords, domains, email_content, email_subject, from_address, to_address) ==
    BlockE(BlockD(BlockC(BlockB(
        BlockA(email_content, email_subject, from_address, to_address, keywords)),
        domains)))

(***************************************************************************)
(* Inputs                                                                   *)
(***************************************************************************)
MaxFrags == 2

MaxRepeat == 12

\* the pieces a body is put together from
ShortenerUrl == <<"h","t","t","p",":","/","/","b","i","t",".","l","y","/","x">>

AnchorEvil == <<"<","a"," ","h","r","e","f","=","\"","h","t","t","p",":","/","/","e","v","i","l",".","c","o","m","\"",">","L","o","g","i","n"," ","t","o"," ","y","o","u","r"," ","b","a","n","k","<","/","a",">">>

\* an anchor whose href holds a tab: urlparse drops it, so the host it returns
\* (evil.com) is not the text of the href
AnchorTab == <<"<","a"," ","h","r","e","f","=","\"","h","t","t","p",":","/","/","e","v","\t","i","l",".","c","o","m","\"",">","x","<","/","a",">">>

Frags ==
    { ShortenerUrl, <<" ">>, <<"U","R","G","E","N","T","!">>, <<"v","e","r","i","f","y"," ","y","o","u","r"," ","a","c","c","o","u","n","t">>, AnchorEvil, AnchorTab,
      <<"e","v","i","l",".","c","o","m">>, <<"h","t","t","p",":","/","/","1","9","2",".","1","6","8",".","1",".","1","0","0","/","l","o","g","i","n">>, <<"<","h","t","m","l",">","<","i","m","g"," ","s","r","c","=","x",">","<","f","o","r","m",">">>,
      <<"s","e","e"," ","a","t","t","a","c","h","e","d">> }

RepeatFrags == { AnchorEvil, AnchorTab, <<"U","R","G","E","N","T","!"," ","h","t","t","p",":","/","/","b","i","t",".","l","y","/","x"," ">> }

RECURSIVE Concats(_)
Concats(n) ==
    IF n = 0 THEN {<<>>}
    ELSE LET S == Concats(n - 1) IN S \cup {s \o f : s \in S, f \in Frags}

RECURSIVE Repeat(_, _)
Repeat(s, n) == IF n = 0 THEN <<>> ELSE s \o Repeat(s, n - 1)

FragBodies == Concats(MaxFrags)

RepeatBodies == {Repeat(f, n) : f \in RepeatFrags, n \in 0..MaxRepeat}

Subjects == { <<>>, <<"A","c","c","o","u","n","t"," ","s","u","s","p","e","n","d","e","d","!">> }

Froms == { <<>>, <<"a","@","g","m","a","i","l",".","c","o","m">>, <<"g","m","a","i","l",".","c","o","m">>, <<"a","@","y","a","h","o","o",".","c","o","m","@","e","v","i","l",".","c","o","m">> }

Tos == { <<>>, <<"u","s","e","r","@","e","m","a","i","l",".","c","o","m">> }

Args(email_content, email_subject, from_address, to_address) ==
    [email_content |-> email_content, email_subject |-> email_subject,
     from_address |-> from_address, to_address |-> to_address]

\* every sender and recipient with the short bodies, every subject with the long ones
ExtractArgs ==
    {Args(c, s, f, t) : c \in Concats(1), s \in Subjects, f \in Froms, t \in Tos}
    \cup {Args(c, s, <<>>, <<>>) : c \in FragBodies, s \in Subjects}
    \cup {Args(c, <<>>, <<>>, <<>>) : c \in RepeatBodies}

TextArgs == {Args(c, <<>>, f, <<>>) : c \in Concats(1), f \in Froms}

(***************************************************************************)
(* State                                                                    *)
(***************************************************************************)
NoFile == [exists |-> FALSE, names |-> <<>>]

\* train_phishing_model is not running
TrainIdle == [at |-> "idle", columns |-> <<>>]

NThreads == 2

Threads == 1..NThreads

\* a thread that runs no call
NoCall == [call |-> "", failed |-> FALSE, l |-> <<>>]

NoRet == [raised |-> "", value |-> <<>>]

Returned(v) == [raised |-> "", value |-> v]

Init ==
    /\ suspicious_keywords = InitKeywords
    /\ suspicious_domains = InitDomains
    /\ model_file = NoFile
    /\ feature_names_file = NoFile
    /\ train_pc = TrainIdle
    /\ op = "idle"
    /\ req = <<>>
    /\ ret = NoRet
    /\ predicted = <<>>
    /\ loaded = FALSE
    /\ hist = <<>>
    /\ before = <<>>
    /\ pc = [t \in Threads |-> "idle"]
    /\ loc = [t \in Threads |-> NoCall]
    /\ th_ret = [t \in Threads |-> <<>>]

service_vars == <<model_file, feature_names_file, train_pc, predicted, loaded>>

hist_vars == <<hist, before>>

thread_vars == <<pc, loc, th_ret>>

lexicons == <<suspicious_keywords, suspicious_domains>>

(***************************************************************************)
(* PhishingDetector, one call at a time                                     *)
(***************************************************************************)
\* As extract_features, taking the keywords it has found out of the lexicon
extract_features_Consuming(a) ==
    /\ op = "idle"
    /\ op' = "extract_features"
    /\ req' = a
    /\ ret' = Returned(ExtractFeatures(suspicious_keywords, suspicious_domains,
                  a.email_content, a.email_subject, a.from_address, a.to_address))
    /\ suspicious_keywords' =
           SelectSeq(suspicious_keywords,
               LAMBDA k : ~Contains(Lower(a.email_subject \o <<" ">> \o a.email_content), k))
    /\ UNCHANGED <<suspicious_domains, service_vars, hist_vars, thread_vars>>

\* detector.extract_features(...) called on the shared detector
extract_features(a) ==
    /\ op = "idle"
    /\ op' = "extract_features"
    /\ req' = a
    /\ ret' = Returned(ExtractFeatures(suspicious_keywords, suspicious_domains,
                  a.email_content, a.email_subject, a.from_address, a.to_address))
    /\ UNCHANGED <<lexicons, service_vars, hist_vars, thread_vars>>

\* detector.extract_from_text(email_text, subject, from_addr, to_addr)
extract_from_text(a) ==
    /\ op = "idle"
    /\ op' = "extract_from_text"
    /\ req' = a
    /\ ret' = Returned(ExtractFeatures(suspicious_keywords, suspicious_domains,
                  a.email_content, a.email_subject, a.from_address, a.to_address))
    /\ UNCHANGED <<lexicons, service_vars, hist_vars, thread_vars>>

\* the caller takes the result (as prepare_features appends it to its list)
TakeResult ==
    /\ op # "idle"
    /\ op' = "idle"
    /\ req' = <<>>
    /\ ret' = NoRet
    /\ predicted' = <<>>
    /\ loaded' = FALSE
    /\ UNCHANGED <<lexicons, model_file, feature_names_file, train_pc, hist_vars, thread_vars>>

NextExtract ==
    \/ \E a \in ExtractArgs : extract_features(a)
    \/ \E a \in TextArgs : extract_from_text(a)
    \/ TakeResult

SpecExtract == Init /\ [][NextExtract]_vars

Extracted == op \in {"extract_features", "extract_from_text"}

(***************************************************************************)
(* C1-C4: the returned vector                                               *)
(***************************************************************************)
Schema ==
    << "suspicious_keywords_count", "urgent_language", "url_count", "suspicious_urls",
       "has_html", "link_count", "avg_url_length", "ip_in_url", "subject_length",
       "content_length", "uppercase_ratio", "attachment_mention", "link_mismatch",
       "exclamation_count", "is_common_domain", "has_form", "image_count", "spam_score" >>

\* C1: whatever the arguments, the mapping extract_features returns has exactly
\* the 18 schema keys, each once, in the declared order.
C1_FixedSchema == Extracted => Keys(ret.value) = Schema

\* the all-empty call has returned the full schema
C1_Witness ==
    /\ op = "extract_features"
    /\ req = Args(<<>>, <<>>, <<>>, <<>>)
    /\ Len(ret.value) = 18

\* C2: in every returned vector 0 <= suspicious_urls <= url_count,
\* 0 <= link_mismatch <= 5, 0 <= uppercase count <= body length (the ratio is
\* in [0, 1]) and 0 <= spam_score <= 50.
C2_Ranges ==
    Extracted =>
        LET f == ret.value IN
        /\ 0 <= Get(f, "suspicious_urls") /\ Get(f, "suspicious_urls") <= Get(f, "url_count")
        /\ 0 <= Get(f, "link_mismatch") /\ Get(f, "link_mismatch") <= 5
        /\ 0 <= Get(f, "uppercase_ratio")[1]
        /\ Get(f, "uppercase_ratio")[1] <= Get(f, "uppercase_ratio")[2]
        /\ Get(f, "uppercase_ratio")[2] >= 1
        /\ Get(f, "spam_score")[2] = 2
        /\ 0 <= Get(f, "spam_score")[1] /\ Get(f, "spam_score")[1] <= 100

\* both caps are active: more than five mismatching links, or a weighted sum above 50
C2_Witness ==
    /\ op = "extract_features"
    /\ \/ /\ Get(ret.value, "link_count") > 5
          /\ Get(ret.value, "link_mismatch") = 5
       \/ /\ Get(ret.value, "spam_score") = <<100, 2>>
          /\ 9 * Get(ret.value, "url_count") > 100

\* C3: spam_score = min(50, 2k + 1.5u + 3s + 0.5e + 2g) of the same vector's
\* suspicious_keywords_count k, url_count u, suspicious_urls s,
\* exclamation_count e and urgent_language g (stated in half units).
C3_SpamScore ==
    Extracted =>
        LET f == ret.value IN
        Get(f, "spam_score") =
            << Min(100, 4 * Get(f, "suspicious_keywords_count") + 3 * Get(f, "url_count")
                        + 6 * Get(f, "suspicious_urls") + Get(f, "exclamation_count")
                        + 4 * Get(f, "urgent_language")), 2 >>

\* all five terms count and the sum stays below the cap
C3_Witness ==
    /\ op = "extract_features"
    /\ Get(ret.value, "suspicious_keywords_count") > 0
    /\ Get(ret.value, "url_count") > 0
    /\ Get(ret.value, "suspicious_urls") > 0
    /\ Get(ret.value, "exclamation_count") > 0
    /\ Get(ret.value, "urgent_language") > 0
    /\ Get(ret.value, "spam_score")[1] < 100
    /\ Get(ret.value, "spam_score")[1] % 2 = 1

\* C4: a body of n anchors <a href="http://evil.com">Login to your bank</a>,
\* whose host is written nowhere but in the href, gives link_count = n and
\* link_mismatch = min(n, 5).
C4_LinkMismatch ==
    \A n \in 0..MaxRepeat :
        (op = "extract_features" /\ req = Args(Repeat(AnchorEvil, n), <<>>, <<>>, <<>>))
        => /\ Get(ret.value, "link_count") = n
           /\ Get(ret.value, "link_mismatch") = Min(n, 5)

(***************************************************************************)
(* C5: a shortener URL inserted into the body                               *)
(***************************************************************************)
MaxMonoFrags == 2

MonoFrags == { ShortenerUrl, <<" ">>, <<"U","R","G","E","N","T","!">>, <<"v","e","r","i","f","y"," ","y","o","u","r"," ","a","c","c","o","u","n","t">> }

RECURSIVE MonoConcats(_)
MonoConcats(n) ==
    IF n = 0 THEN {<<>>}
    ELSE LET S == MonoConcats(n - 1) IN S \cup {s \o f : s \in S, f \in MonoFrags}

MonoBodies == MonoConcats(MaxMonoFrags)

\* body with s inserted after its first p characters
Insert(body, p, s) == SubSeq(body, 1, p) \o s \o SubSeq(body, p + 1, Len(body))

\* extract_features on a body, then on the same body with the shortener URL
\* inserted after its first p characters
extract_inserted(email_content, email_subject, p) ==
    /\ op = "idle"
    /\ op' = "extract_inserted"
    /\ req' = [email_content |-> email_content, email_subject |-> email_subject, p |-> p]
    /\ before' = ExtractFeatures(suspicious_keywords, suspicious_domains,
                     email_content, email_subject, <<>>, <<>>)
    /\ ret' = Returned(ExtractFeatures(suspicious_keywords, suspicious_domains,
                  Insert(email_content, p, ShortenerUrl), email_subject, <<>>, <<>>))
    /\ UNCHANGED <<lexicons, service_vars, hist, thread_vars>>

TakeInserted ==
    /\ op = "extract_inserted"
    /\ op' = "idle"
    /\ req' = <<>>
    /\ ret' = NoRet
    /\ before' = <<>>
    /\ UNCHANGED <<lexicons, service_vars, hist, thread_vars>>

NextMono ==
    \/ \E c \in MonoBodies, s \in Subjects : \E p \in 0..Len(c) : extract_inserted(c, s, p)
    \/ TakeInserted

SpecMono == Init /\ [][NextMono]_vars

NotLower(name) ==
    op = "extract_inserted" => Get(ret.value, name) >= Get(before, name)

\* C5 as stated: the insertion never lowers suspicious_urls, url_count or spam_score.
C5_Monotone ==
    /\ NotLower("suspicious_urls")
    /\ NotLower("url_count")
    /\ op = "extract_inserted" => Get(ret.value, "spam_score")[1] >= Get(before, "spam_score")[1]

\* C5 amended: the insertion never lowers suspicious_urls or url_count, and it
\* never lowers spam_score unless it lowers suspicious_keywords_count or
\* urgent_language (by splitting a keyword or urgency word it lands inside).
C5_MonotoneAmended ==
    /\ NotLower("suspicious_urls")
    /\ NotLower("url_count")
    /\ (op = "extract_inserted"
        /\ Get(ret.value, "suspicious_keywords_count") >= Get(before, "suspicious_keywords_count")
        /\ Get(ret.value, "urgent_language") >= Get(before, "urgent_language"))
       => Get(ret.value, "spam_score")[1] >= Get(before, "spam_score")[1]

\* the insertion landed inside an existing shortener URL, strictly between its
\* first and last character, and the counts stayed as they were
C5_Witness ==
    /\ op = "extract_inserted"
    /\ req.email_content = ShortenerUrl
    /\ req.p = 7
    /\ Get(before, "suspicious_urls") = 1
    /\ Get(ret.value, "suspicious_urls") = 1
    /\ Get(ret.value, "url_count") = 1

(***************************************************************************)
(* PhishingDetector.parse_email_file.  A stored file is what open() and     *)
(* email.message_from_file make of it: whether it opens, its headers, and   *)
(* its payload or, for a multipart message, its parts.  Payloads are plain  *)
(* 7-bit text, which get_payload(decode=True).decode('utf-8') gives back    *)
(* unchanged.                                                               *)
(***************************************************************************)
NoHeader == [present |-> FALSE, encoded |-> FALSE, text |-> <<>>]

Plain(text) == [present |-> TRUE, encoded |-> FALSE, text |-> text]

\* an RFC 2047 encoded word that decodes to text
EncodedWord(text) == [present |-> TRUE, encoded |-> TRUE, text |-> text]

Message(subject, from, to, payload) ==
    [openable |-> TRUE, subject |-> subject, from |-> from, to |-> to,
     multipart |-> FALSE, payload |-> payload, parts |-> <<>>]

Multipart(subject, from, to, parts) ==
    [openable |-> TRUE, subject |-> subject, from |-> from, to |-> to,
     multipart |-> TRUE, payload |-> <<>>, parts |-> parts]

Part(content_type, payload) == [content_type |-> content_type, payload |-> payload]

\* open() raises: no such file, a directory, no permission
Unopenable ==
    [openable |-> FALSE, subject |-> NoHeader, from |-> NoHeader, to |-> NoHeader,
     multipart |-> FALSE, payload |-> <<>>, parts |-> <<>>]

Files ==
    [ missing    |-> Unopenable,
      blank      |-> Message(NoHeader, NoHeader, NoHeader, <<>>),
      empty_body |-> Message(Plain(<<"A","c","c","o","u","n","t"," ","s","u","s","p","e","n","d","e","d","!">>), Plain(<<"a","@","g","m","a","i","l",".","c","o","m">>),
                             Plain(<<"u","s","e","r","@","e","m","a","i","l",".","c","o","m">>), <<>>),
      plain      |-> Message(Plain(<<"h","i">>), NoHeader, NoHeader, <<"U","R","G","E","N","T","!"," ","h","t","t","p",":","/","/","b","i","t",".","l","y","/","x">>),
      encoded    |-> Message(EncodedWord(<<"u","r","g","e","n","t">>), Plain(<<"a","@","e","v","i","l",".","c","o","m">>), NoHeader,
                             <<"h","e","l","l","o">>),
      multi      |-> Multipart(Plain(<<"h","i">>), NoHeader, NoHeader,
                        << Part("text/plain", <<"v","e","r","i","f","y"," ","y","o","u","r"," ","a","c","c","o","u","n","t">>),
                           Part("image/png", <<"x","x">>),
                           Part("text/html", AnchorTab) >>) ]

Paths == DOMAIN Files

\* lines 160-162: str(decode_header(msg['Subject'])[0][0]); the first chunk of an
\* encoded word is a bytes object, whose str() is b'...'
ParsedSubject(file) ==
    IF file.subject.present /\ file.subject.text # <<>>
    THEN IF file.subject.encoded
         THEN <<"b", "'">> \o file.subject.text \o <<"'">>
         ELSE file.subject.text
    ELSE <<>>

\* msg['From'] or "", msg['To'] or ""
HeaderOrEmpty(h) == IF h.present THEN h.text ELSE <<>>

\* lines 170-176: the text/plain and text/html parts, concatenated
RECURSIVE WalkBody(_)
WalkBody(parts) ==
    IF parts = <<>> THEN <<>>
    ELSE (IF Head(parts).content_type \in {"text/plain", "text/html"}
          THEN Head(parts).payload ELSE <<>>) \o WalkBody(Tail(parts))

\* lines 167-181
ParsedBody(file) == IF file.multipart THEN WalkBody(file.parts) ELSE file.payload

\* As parse_email_file with the failure taken for an empty message
ParseEmailFile_AsEmpty(keywords, domains, file) ==
    IF ~file.openable
    THEN ExtractFeatures(keywords, domains, <<>>, <<>>, <<>>, <<>>)
    ELSE ExtractFeatures(keywords, domains, ParsedBody(file), ParsedSubject(file),
                         HeaderOrEmpty(file.from), HeaderOrEmpty(file.to))

\* parse_email_file: {} when open() raises, the extracted features otherwise
ParseEmailFile(keywords, domains, file) ==
    IF ~file.openable
    THEN <<>>
    ELSE ExtractFeatures(keywords, domains, ParsedBody(file), ParsedSubject(file),
                         HeaderOrEmpty(file.from), HeaderOrEmpty(file.to))

(***************************************************************************)
(* C7: calls kept by a caller and compared with later ones                  *)
(***************************************************************************)
MaxHist == 2

HistArgs ==
    {Args(c, <<>>, f, <<>>) :
        c \in {<<>>, ShortenerUrl, <<"U","R","G","E","N","T","!">>, AnchorTab}, f \in {<<>>, <<"a","@","g","m","a","i","l",".","c","o","m">>}}

\* PhishingDetector(): a new instance, with the lexicons of __init__
new_detector ==
    /\ op = "idle"
    /\ suspicious_keywords' = InitKeywords
    /\ suspicious_domains' = InitDomains
    /\ UNCHANGED <<service_vars, op, req, ret, hist_vars, thread_vars>>

\* the caller keeps the call and its result (features_list.append(features))
KeepResult ==
    /\ op = "extract_features"
    /\ Len(hist) < MaxHist
    /\ hist' = Append(hist, [req |-> req, ret |-> ret.value])
    /\ op' = "idle"
    /\ req' = <<>>
    /\ ret' = NoRet
    /\ UNCHANGED <<lexicons, service_vars, before, thread_vars>>

NextHist ==
    \/ \E a \in HistArgs : extract_features(a)
    \/ new_detector
    \/ KeepResult
    \/ TakeResult

SpecHist == Init /\ [][NextHist]_vars

\* C7: two extract_features calls with the same arguments return the same
\* vector, whatever calls (on this detector or a new one) came in between.
C7_Deterministic ==
    /\ \A i \in 1..Len(hist) :
           (op = "extract_features" /\ hist[i].req = req) => hist[i].ret = ret.value
    /\ \A i, j \in 1..Len(hist) :
           hist[i].req = hist[j].req => hist[i].ret = hist[j].ret

\* a call that found a keyword is repeated after a different call
C7_Witness ==
    /\ op = "extract_features"
    /\ Len(hist) = 2
    /\ hist[1].req = req
    /\ hist[2].req # req
    /\ Get(ret.value, "suspicious_keywords_count") > 0

(***************************************************************************)
(* C10: calls running at once on one detector.  A call is cut where it      *)
(* reads the detector's lists; everything else it touches is local to it.   *)
(***************************************************************************)
ConcArgs ==
    {Args(c, <<>>, <<>>, <<>>) : c \in {ShortenerUrl, <<"U","R","G","E","N","T","!"," ","h","t","t","p",":","/","/","t","i","n","y","u","r","l",".","c","o","m","/","a">>}}

ConcPaths == {"missing", "multi"}

\* the call enters extract_features (directly, or through extract_from_text)
\* and runs lines 44-53
T_call(t, call, a) ==
    /\ pc[t] = "idle"
    /\ loc' = [loc EXCEPT ![t] =
                 [call |-> call, failed |-> FALSE,
                  l |-> BlockA(a.email_content, a.email_subject, a.from_address,
                               a.to_address, suspicious_keywords)]]
    /\ pc' = [pc EXCEPT ![t] = "B"]
    /\ UNCHANGED <<lexicons, service_vars, op, req, ret, hist_vars, th_ret>>

\* parse_email_file(path): returns {} when open() raises, else enters
\* extract_features with what it parsed
T_parse(t, path) ==
    /\ pc[t] = "idle"
    /\ LET file == Files[path] IN
       IF ~file.openable
       THEN /\ loc' = [loc EXCEPT ![t] = [call |-> "parse_email_file", failed |-> TRUE, l |-> <<>>]]
            /\ th_ret' = [th_ret EXCEPT ![t] = <<>>]
            /\ pc' = [pc EXCEPT ![t] = "done"]
       ELSE /\ loc' = [loc EXCEPT ![t] =
                         [call |-> "parse_email_file", failed |-> FALSE,
                          l |-> BlockA(ParsedBody(file), ParsedSubject(file),
                                       HeaderOrEmpty(file.from), HeaderOrEmpty(file.to),
                                       suspicious_keywords)]]
            /\ th_ret' = th_ret
            /\ pc' = [pc EXCEPT ![t] = "B"]
    /\ UNCHANGED <<lexicons, service_vars, op, req, ret, hist_vars>>

\* lines 55-62
T_BlockB(t) ==
    /\ pc[t] = "B"
    /\ loc' = [loc EXCEPT ![t].l = BlockB(@)]
    /\ pc' = [pc EXCEPT ![t] = "C"]
    /\ UNCHANGED <<lexicons, service_vars, op, req, ret, hist_vars, th_ret>>

\* As lines 64-68, taking the domains off the detector's list while testing them
T_BlockC_Pop(t) ==
    /\ pc[t] = "C"
    /\ loc' = [loc EXCEPT ![t].l = BlockC(@, suspicious_domains)]
    /\ suspicious_domains' = <<>>
    /\ pc' = [pc EXCEPT ![t] = "D"]
    /\ UNCHANGED <<suspicious_keywords, service_vars, op, req, ret, hist_vars, th_ret>>

\* lines 64-68
T_BlockC(t) ==
    /\ pc[t] = "C"
    /\ loc' = [loc EXCEPT ![t].l = BlockC(@, suspicious_domains)]
    /\ pc' = [pc EXCEPT ![t] = "D"]
    /\ UNCHANGED <<lexicons, service_vars, op, req, ret, hist_vars, th_ret>>

\* lines 70-140
T_BlockD(t) ==
    /\ pc[t] = "D"
    /\ loc' = [loc EXCEPT ![t].l = BlockD(@)]
    /\ pc' = [pc EXCEPT ![t] = "E"]
    /\ UNCHANGED <<lexicons, service_vars, op, req, ret, hist_vars, th_ret>>

\* lines 142-151
T_BlockE(t) ==
    /\ pc[t] = "E"
    /\ th_ret' = [th_ret EXCEPT ![t] = BlockE(loc[t].l)]
    /\ pc' = [pc EXCEPT ![t] = "done"]
    /\ UNCHANGED <<lexicons, service_vars, op, req, ret, hist_vars, loc>>

\* the caller takes the result
T_take(t) ==
    /\ pc[t] = "done"
    /\ pc' = [pc EXCEPT ![t] = "idle"]
    /\ loc' = [loc EXCEPT ![t] = NoCall]
    /\ th_ret' = [th_ret EXCEPT ![t] = <<>>]
    /\ UNCHANGED <<lexicons, service_vars, op, req, ret, hist_vars>>

NextConc ==
    \E t \in Threads :
        \/ \E a \in ConcArgs : T_call(t, "extract_features", a)
        \/ T_call(t, "extract_from_text", Args(AnchorTab, <<>>, <<>>, <<>>))
        \/ \E path \in ConcPaths : T_parse(t, path)
        \/ T_BlockB(t)
        \/ T_BlockC(t)
        \/ T_BlockD(t)
        \/ T_BlockE(t)
        \/ T_take(t)

SpecConc == Init /\ [][NextConc]_vars

\* what the call of thread t returns when it runs alone on a new detector
Alone(t) ==
    IF loc[t].failed THEN <<>>
    ELSE LET l == loc[t].l
         IN  ExtractFeatures(InitKeywords, InitDomains, l.email_content, l.email_subject,
                             l.from_address, l.to_address)

\* C10: however the calls of the threads interleave, each returns the vector
\* it returns when run alone, and the two lexicons stay as __init__ made them.
C10_Isolated ==
    /\ suspicious_keywords = InitKeywords
    /\ suspicious_domains = InitDomains
    /\ \A t \in Threads : pc[t] = "done" => th_ret[t] = Alone(t)

\* a call has returned a vector with a shortener URL while another call, on
\* other arguments, is between its two reads of the lexicons
C10_Witness ==
    \E t, u \in Threads :
        /\ pc[t] = "done" /\ ~loc[t].failed
        /\ Get(th_ret[t], "suspicious_urls") > 0
        /\ pc[u] \in {"B", "C"}
        /\ loc[u].l.email_content # loc[t].l.email_content

(***************************************************************************)
(* pandas: a one-row DataFrame and the selection of columns by name         *)
(***************************************************************************)
\* pd.DataFrame([features])
DataFrame(features) ==
    [columns |-> Keys(features), rows |-> <<[i \in 1..Len(features) |-> features[i][2]]>>]

\* whether df[names] raises KeyError: a name is no column
SelectRaises(df, names) ==
    \E k \in 1..Len(names) : \A i \in 1..Len(df.columns) : df.columns[i] # names[k]

\* df[names], when it does not raise: the named columns, in the order of names
Select(df, names) ==
    [columns |-> names,
     rows |-> [r \in 1..Len(df.rows) |->
                 [k \in 1..Len(names) |->
                    df.rows[r][CHOOSE i \in 1..Len(df.columns) : df.columns[i] = names[k]]]]]

\* detect_phishing.py lines 46-55 and 89-98: the frame handed to the model
FeaturesDf(features, names_file) ==
    IF names_file.exists
    THEN IF SelectRaises(DataFrame(features), names_file.names)
         THEN DataFrame(features)                       \* except: (line 54)
         ELSE Select(DataFrame(features), names_file.names)
    ELSE DataFrame(features)

(***************************************************************************)
(* train_model.py: the two files train_phishing_model writes                *)
(***************************************************************************)
\* load_or_create_dataset(): the rows of phishing_dataset.csv, one phishing and one
\* legitimate
Row(subject, content, from, to, label) ==
    [subject |-> subject, content |-> content, from |-> from, to |-> to, label |-> label]

Dataset ==
    << Row(<<"U","R","G","E","N","T",":"," ","V","e","r","i","f","y","!">>, <<"C","l","i","c","k"," ","h","e","r","e",":"," ","h","t","t","p",":","/","/","b","i","t",".","l","y","/","x","."," ","A","c","t"," ","n","o","w","!">>,
           <<"s","u","p","p","o","r","t","@","e","v","i","l",".","c","o","m">>, <<"u","s","e","r","@","e","m","a","i","l",".","c","o","m">>, 1),
       Row(<<"M","o","n","t","h","l","y"," ","R","e","p","o","r","t">>, <<"S","e","e"," ","y","o","u"," ","t","h","e","n",".">>,
           <<"m","a","n","a","g","e","r","@","c","o","m","p","a","n","y",".","c","o","m">>, <<"u","s","e","r","@","e","m","a","i","l",".","c","o","m">>, 0) >>

\* columns of pd.DataFrame(features_list): the keys in order of first appearance
RECURSIVE FrameColumns(_, _)
FrameColumns(features_list, columns) ==
    IF features_list = <<>> THEN columns
    ELSE LET ks == Keys(Head(features_list))
             new == SelectSeq(ks, LAMBDA k : \A i \in 1..Len(columns) : columns[i] # k)
         IN  FrameColumns(Tail(features_list), columns \o new)

\* prepare_features(df, detector), with the detector made at line 140
PrepareFeatures(df) ==
    [i \in 1..Len(df) |->
        ExtractFeatures(InitKeywords, InitDomains, df[i].content,
                        df[i].subject, df[i].from, df[i].to)]

\* lines 149-188: X is built, the model is fitted on it and dumped
train_save_model ==
    /\ op = "idle"
    /\ train_pc.at = "idle"
    /\ LET columns == FrameColumns(PrepareFeatures(Dataset), <<>>) IN
       /\ model_file' = [exists |-> TRUE, names |-> columns]
       /\ train_pc' = [at |-> "saved_model", columns |-> columns]
    /\ UNCHANGED <<lexicons, feature_names_file, op, req, ret, predicted, loaded,
                   hist_vars, thread_vars>>

\* lines 191-194: list(X.columns) is dumped
train_save_names ==
    /\ op = "idle"
    /\ train_pc.at = "saved_model"
    /\ feature_names_file' = [exists |-> TRUE, names |-> train_pc.columns]
    /\ train_pc' = TrainIdle
    /\ UNCHANGED <<lexicons, model_file, op, req, ret, predicted, loaded,
                   hist_vars, thread_vars>>

(***************************************************************************)
(* detect_phishing.py                                                       *)
(***************************************************************************)
\* what the classifier answers is not decided here: the probability of
\* phishing, in percent
Probabilities == {0, 50, 100}

Raised(e) == [raised |-> e, value |-> <<>>]

\* lines 57-67 and 100-110
Result(features, p) ==
    [is_phishing |-> p > 50,
     phishing_probability |-> p,
     legitimate_probability |-> 100 - p,
     confidence |-> IF p > 100 - p THEN p ELSE 100 - p,
     features |-> features]

\* what an entry point does besides returning: the frames it hands to the model
\* and whether it loads the model
Outcome(r, frames, load) == [ret |-> r, predicted |-> frames, loaded |-> load]

\* lines 46-67 and 89-110: predict and predict_proba on the frame
Classify(features, p) ==
    Outcome(Returned(Result(features, p)),
            <<FeaturesDf(features, feature_names_file), FeaturesDf(features, feature_names_file)>>,
            TRUE)

\* detect_email: the outcomes, one for each answer of the classifier
DetectEmail(a) ==
    IF ~model_file.exists
    THEN {Outcome(Raised("FileNotFoundError"), <<>>, FALSE)}
    ELSE {Classify(features, p) :
            features \in {ExtractFeatures(InitKeywords, InitDomains, a.email_content,
                              a.email_subject, a.from_address, a.to_address)},
            p \in Probabilities}

detect_email(a) ==
    /\ op = "idle"
    /\ op' = "detect_email"
    /\ req' = a
    /\ \E d \in DetectEmail(a) :
         /\ ret' = d.ret
         /\ predicted' = d.predicted
         /\ loaded' = d.loaded
    /\ UNCHANGED <<lexicons, model_file, feature_names_file, train_pc, hist_vars, thread_vars>>

ParseFailed == [error |-> "Failed to parse email file"]

\* detect_from_file: the outcomes, one for each answer of the classifier
DetectFromFile(path) ==
    {IF features = <<>>
     THEN Outcome(Returned(ParseFailed), <<>>, FALSE)             \* lines 78-79
     ELSE IF ~model_file.exists
     THEN Outcome(Raised("FileNotFoundError"), <<>>, FALSE)       \* lines 82-85
     ELSE Classify(features, p) :
        features \in {ParseEmailFile(InitKeywords, InitDomains, Files[path])},
        p \in Probabilities}

detect_from_file(path) ==
    /\ op = "idle"
    /\ op' = "detect_from_file"
    /\ req' = path
    /\ \E d \in DetectFromFile(path) :
         /\ ret' = d.ret
         /\ predicted' = d.predicted
         /\ loaded' = d.loaded
    /\ UNCHANGED <<lexicons, model_file, feature_names_file, train_pc, hist_vars, thread_vars>>

\* detector.parse_email_file(path) on the shared detector
parse_email_file(path) ==
    /\ op = "idle"
    /\ op' = "parse_email_file"
    /\ req' = path
    /\ ret' = Returned(ParseEmailFile(suspicious_keywords, suspicious_domains, Files[path]))
    /\ UNCHANGED <<lexicons, service_vars, hist_vars, thread_vars>>

(***************************************************************************)
(* app.py: POST /detect                                                     *)
(***************************************************************************)
\* request.get_json() raises: the body is no JSON
NotJson == [json |-> FALSE, data |-> <<>>]

Json(data) == [json |-> TRUE, data |-> data]

ServiceBodies == << <<>>, <<"U","R","G","E","N","T","!"," ","h","t","t","p",":","/","/","b","i","t",".","l","y","/","x">>, AnchorTab >>

Requests ==
    << NotJson,
       Json([email_subject |-> <<"h","i">>]),
       Json([email_content |-> <<>>, email_subject |-> <<"A","c","c","o","u","n","t"," ","s","u","s","p","e","n","d","e","d","!">>,
             from_address |-> <<"a","@","g","m","a","i","l",".","c","o","m">>, to_address |-> <<>>]),
       Json([email_content |-> <<"U","R","G","E","N","T","!"," ","h","t","t","p",":","/","/","b","i","t",".","l","y","/","x">>]),
       Json([email_content |-> AnchorTab, email_subject |-> <<"A","c","c","o","u","n","t"," ","s","u","s","p","e","n","d","e","d","!">>,
             from_address |-> <<"a","@","g","m","a","i","l",".","c","o","m">>, to_address |-> <<"u","s","e","r","@","e","m","a","i","l",".","c","o","m">>]) >>

\* data.get(key, '')
DataGet(data, key) == IF key \in DOMAIN data THEN data[key] ELSE <<>>

Response(status, body) == [status |-> status, body |-> body]

ContentRequired == "Email content is required"

ModelNotFound ==
    "Model not found. Please train the model first by running: python train_model.py"

\* lines 22-25
RequestArgs(data) ==
    Args(DataGet(data, "email_content"), DataGet(data, "email_subject"),
         DataGet(data, "from_address"), DataGet(data, "to_address"))

\* lines 48-56: the response made of what detect_email did
Respond(d) ==
    IF d.ret.raised # ""
    THEN Outcome(Returned(Response(500, [error |-> d.ret.raised])), d.predicted, d.loaded)
    ELSE Outcome(Returned(Response(200, [success |-> TRUE, result |-> d.ret.value])),
                 d.predicted, d.loaded)

\* As the handler with the two checks of lines 27-37 in the other order
Detect_ModelFirst(request) ==
    IF ~request.json
    THEN {Outcome(Returned(Response(500, [error |-> "get_json"])), <<>>, FALSE)}
    ELSE IF ~model_file.exists
    THEN {Outcome(Returned(Response(500, [error |-> ModelNotFound])), <<>>, FALSE)}
    ELSE IF RequestArgs(request.data).email_content = <<>>
    THEN {Outcome(Returned(Response(400, [error |-> ContentRequired])), <<>>, FALSE)}
    ELSE {Respond(d) : d \in DetectEmail(RequestArgs(request.data))}

\* detect(): the outcomes, one for each answer of the classifier
Detect(request) ==
    IF ~request.json                                               \* lines 53-56
    THEN {Outcome(Returned(Response(500, [error |-> "get_json"])), <<>>, FALSE)}
    ELSE IF RequestArgs(request.data).email_content = <<>>         \* lines 27-30
    THEN {Outcome(Returned(Response(400, [error |-> ContentRequired])), <<>>, FALSE)}
    ELSE IF ~model_file.exists                                     \* lines 33-37
    THEN {Outcome(Returned(Response(500, [error |-> ModelNotFound])), <<>>, FALSE)}
    ELSE {Respond(d) : d \in DetectEmail(RequestArgs(request.data))}

detect(request) ==
    /\ op = "idle"
    /\ op' = "detect"
    /\ req' = request
    /\ \E d \in Detect(request) :
         /\ ret' = d.ret
         /\ predicted' = d.predicted
         /\ loaded' = d.loaded
    /\ UNCHANGED <<lexicons, model_file, feature_names_file, train_pc, hist_vars, thread_vars>>

Next ==
    \/ train_save_model
    \/ train_save_names
    \/ \E i \in 1..Len(ServiceBodies), s \in Subjects :
           detect_email(Args(ServiceBodies[i], s, <<>>, <<>>))
    \/ \E path \in Paths : detect_from_file(path)
    \/ \E path \in Paths : parse_email_file(path)
    \/ \E i \in 1..Len(Requests) : detect(Requests[i])
    \/ TakeResult

Spec == Init /\ [][Next]_vars

(***************************************************************************)
(* Properties of the entry points                                           *)
(***************************************************************************)
\* C6: parse_email_file returns the empty mapping exactly when the file cannot be
\* read, and the full 18-key vector otherwise, an empty body included;
\* detect_from_file on such a failure returns a result whose only field is
\* error, without loading the model or calling the classifier, whether or not
\* a model file exists, and returns that result in no other case.
C6_ParseFailure ==
    /\ op = "parse_email_file" =>
         /\ (ret.value = <<>>) <=> ~Files[req].openable
         /\ Files[req].openable => Keys(ret.value) = Schema
    /\ (op = "detect_from_file" /\ ~Files[req].openable) =>
         /\ ret.raised = ""
         /\ DOMAIN ret.value = {"error"}
         /\ ret.value.error = "Failed to parse email file"
         /\ ~loaded
         /\ predicted = <<>>
    /\ (op = "detect_from_file" /\ Files[req].openable) =>
         \/ ret.raised = "FileNotFoundError" /\ ~model_file.exists
         \/ /\ ret.raised = ""
            /\ "is_phishing" \in DOMAIN ret.value
            /\ Keys(ret.value.features) = Schema

\* detect_from_file was given a file that cannot be read while no model exists, and
\* answered with the parse error
C6_Witness ==
    /\ op = "detect_from_file"
    /\ ~Files[req].openable
    /\ ~model_file.exists
    /\ ret = Returned(ParseFailed)

\* the email_content of a JSON request
ContentOf(request) == DataGet(request.data, "email_content")

\* C8: for a JSON request, /detect answers 400 "content required" when
\* email_content is empty or absent, with or without a model file; it answers
\* 500 "model not found" when the content is not empty and there is no model
\* file; the model is loaded, the classifier is called and a success response
\* is returned only when the content is not empty and the model file exists.
C8_Handler ==
    op = "detect" =>
        /\ (req.json /\ ContentOf(req) = <<>>) =>
              ret.value = Response(400, [error |-> ContentRequired])
        /\ (req.json /\ ContentOf(req) # <<>> /\ ~model_file.exists) =>
              ret.value = Response(500, [error |-> ModelNotFound])
        /\ (loaded \/ predicted # <<>> \/ ret.value.status = 200) =>
              /\ req.json
              /\ ContentOf(req) # <<>>
              /\ model_file.exists
        /\ (req.json /\ ContentOf(req) # <<>> /\ model_file.exists) =>
              /\ ret.value.status = 200
              /\ ret.value.body.success
              /\ Keys(ret.value.body.result.features) = Schema
              /\ loaded

\* /detect answered 400 to a request without content while no model file exists
C8_Witness ==
    /\ op = "detect"
    /\ req.json
    /\ ContentOf(req) = <<>>
    /\ ~model_file.exists
    /\ ret.value.status = 400

\* C9: once the model and the list of feature names are saved, every frame that
\* detect_email or detect_from_file hands to the classifier has one row, its
\* columns are the saved names in the saved order, and each cell is the
\* extracted value of that name: no saved name is missing from the vector, so
\* the selection does not fall back.
C9_FeatureOrder ==
    (op \in {"detect_email", "detect_from_file"}
       /\ model_file.exists /\ feature_names_file.exists /\ predicted # <<>>) =>
        /\ Len(predicted) = 2
        /\ \A k \in 1..Len(predicted) :
              /\ predicted[k].columns = feature_names_file.names
              /\ Len(predicted[k].rows) = 1
              /\ ~SelectRaises(DataFrame(ret.value.features), feature_names_file.names)
              /\ \A j \in 1..Len(feature_names_file.names) :
                    predicted[k].rows[1][j] =
                        Get(ret.value.features, feature_names_file.names[j])

\* detect_from_file classified a readable file after both files were saved
C9_Witness ==
    /\ op = "detect_from_file"
    /\ feature_names_file.exists
    /\ train_pc = TrainIdle
    /\ Len(predicted) = 2
    /\ ret.value.features # <<>>

(***************************************************************************)
(* extract_features on bodies, subjects and senders chosen for the scanners *)
(* of sections 1, 8 and 15                                                  *)
(***************************************************************************)
IpPrefixes == { <<>>, <<"s","e","e"," ">> }

IpHosts ==
    { <<"1","9","2",".","1","6","8",".","1",".","1","0","0">>, <<"e","x","a","m","p","l","e",".","c","o","m">>, <<"1",".","2",".","3",".","4",".","e","x","a","m","p","l","e",".","c","o","m">>, <<"1","2",".","3","4",".","5","6">>,
      <<"u","s","e","r","@","1","0",".","0",".","0",".","1">>, <<"1","0",".","0",".","0",".","1",":","8","0","8","0">>, <<"1","2","3","4",".","1",".","1",".","1">> }

IpTails == { <<>>, <<"/","l","o","g","i","n">>, <<"/","v","/","1",".","2",".","3",".","4">>, <<"?","i","p","=","1","0",".","0",".","0",".","1">>, <<" ","1","0",".","0",".","0",".","1">> }

\* bodies with one URL, and the body without any
IpBodies ==
    {p \o <<"h","t","t","p",":","/","/">> \o h \o t : p \in IpPrefixes, h \in IpHosts, t \in IpTails}
    \cup {p \o <<"h","t","t","p","s",":","/","/">> \o h : p \in IpPrefixes, h \in IpHosts}
    \cup {h \o t : h \in IpHosts, t \in IpTails}

LocalParts == { <<>>, <<"a","@">>, <<"@">>, <<"a","@","b","@">>, <<"g","m","a","i","l",".","c","o","m","@">> }

DomainParts ==
    { <<>>, <<"g","m","a","i","l",".","c","o","m">>, <<"y","a","h","o","o",".","c","o","m">>, <<"o","u","t","l","o","o","k",".","c","o","m">>, <<"h","o","t","m","a","i","l",".","c","o","m">>, <<"G","m","a","i","l",".","c","o","m">>,
      <<"g","m","a","i","l",".","c","o","m"," ">>, <<"g","m","a","i","l",".","c","o","m",">">>, <<"m","a","i","l",".","g","m","a","i","l",".","c","o","m">>, <<"e","v","i","l",".","c","o","m">> }

FromAddresses == {p \o d : p \in LocalParts, d \in DomainParts}

ScanArgs ==
    {Args(c, <<>>, <<>>, <<>>) : c \in IpBodies}
    \cup {Args(<<>>, <<>>, f, <<>>) : f \in FromAddresses}

NextScan ==
    \/ \E a \in ScanArgs : extract_features(a)
    \/ TakeResult

SpecScan == Init /\ [][NextScan]_vars

\* the URLs that section 3 finds in the text of a call
UrlsOf(a) == FindUrls(Lower(a.email_subject \o <<" ">> \o a.email_content), 1)

\* C11: ip_in_url is 1 exactly when the host of one of the URLs found in the text
\* is a dotted-quad literal, and 0 otherwise, in particular when no URL is found.
\* The host of a URL is what follows "://" up to the first "/", "?" or "#",
\* without user information and port; a dotted quad is four groups of one to
\* three digits with "." between them, and nothing else.
C11_IpInUrl ==
    LET HostOf(url) ==
            LET start  == FindFirst(url, 1, {":"}) + 3
                netloc == SubSeq(url, start, FindFirst(url, start, {"/", "?", "#"}) - 1)
                host   == AfterLastAt(netloc)
            IN  SubSeq(host, 1, FindFirst(host, 1, {":"}) - 1)
        IsDottedQuad(h) ==
            \E a, b, c, d \in 1..3 :
                /\ Len(h) = a + b + c + d + 3
                /\ DigitsDot(h, 1, a)
                /\ DigitsDot(h, a + 2, b)
                /\ DigitsDot(h, a + b + 3, c)
                /\ \A k \in (a + b + c + 4)..Len(h) : h[k] \in DigitChars
    IN  op = "extract_features" =>
            Get(ret.value, "ip_in_url") =
                Bool01(\E k \in 1..Len(UrlsOf(req)) : IsDottedQuad(HostOf(UrlsOf(req)[k])))

\* C13: is_common_domain is 1 exactly when from_address has an "@" and what
\* follows its last "@" is, letter for letter and with nothing around it, one of
\* gmail.com, yahoo.com, outlook.com, hotmail.com; it is 0 for the empty address,
\* for an address without "@" and for every other domain.
C13_CommonDomain ==
    op = "extract_features" =>
        LET f == req.from_address
            Providers == { <<"g","m","a","i","l",".","c","o","m">>, <<"y","a","h","o","o",".","c","o","m">>, <<"o","u","t","l","o","o","k",".","c","o","m">>, <<"h","o","t","m","a","i","l",".","c","o","m">> }
        IN  /\ Get(ret.value, "is_common_domain") \in {0, 1}
            /\ Get(ret.value, "is_common_domain") = 1
                 <=> \E i \in 1..Len(f) :
                        /\ f[i] = "@"
                        /\ \A j \in (i + 1)..Len(f) : f[j] # "@"
                        /\ SubSeq(f, i + 1, Len(f)) \in Providers
            /\ (f = <<>> \/ \A i \in 1..Len(f) : f[i] # "@")
                  => Get(ret.value, "is_common_domain") = 0

\* a sender with two "@" whose last segment is a provider was given 1
C13_Witness ==
    /\ op = "extract_features"
    /\ Cardinality({i \in 1..Len(req.from_address) : req.from_address[i] = "@"}) = 2
    /\ Get(ret.value, "is_common_domain") = 1

(***************************************************************************)
(* extract_features on a text, then on the text with a keyword it holds     *)
(* written after it again                                                   *)
(***************************************************************************)
MaxKeywordFrags == 2

MaxCopies == 2

KeywordFrags ==
    { <<"v","e","r","i","f","y"," ","y","o","u","r"," ","a","c","c","o","u","n","t">>, <<"U","R","G","E","N","T">>, <<"a","c","c","o","u","n","t">>, <<"u","p","d","a","t","e">>, <<"A","c","t"," ","N","o","w">> }

RECURSIVE KeywordConcats(_)
KeywordConcats(n) ==
    IF n = 0 THEN {<<>>}
    ELSE LET S == KeywordConcats(n - 1)
         IN  S \cup KeywordFrags \cup {s \o <<" ">> \o f : s \in S \ {<<>>}, f \in KeywordFrags}

KeywordBodies == KeywordConcats(MaxKeywordFrags)

\* every body without a subject, the short ones under a subject as well
KeywordTexts ==
    {<<c, <<>> >> : c \in KeywordBodies} \cup {<<c, <<"U","p","d","a","t","e">>>> : c \in KeywordConcats(1)}

\* f"{email_subject} {email_content}".lower()
FullText(email_content, email_subject) == Lower(email_subject \o <<" ">> \o email_content)

\* the keywords of the detector found in a text
Present(text) == {k \in 1..Len(suspicious_keywords) : Contains(text, suspicious_keywords[k])}

\* extract_features on a body, then on the same body followed by n more copies of
\* the keyword number k, which the text holds already
extract_repeated(email_content, email_subject, k, n) ==
    /\ op = "idle"
    /\ k \in Present(FullText(email_content, email_subject))
    /\ op' = "extract_repeated"
    /\ req' = [email_content |-> email_content, email_subject |-> email_subject,
               repeated |-> Repeat(<<" ">> \o suspicious_keywords[k], n)]
    /\ before' = ExtractFeatures(suspicious_keywords, suspicious_domains,
                     email_content, email_subject, <<>>, <<>>)
    /\ ret' = Returned(ExtractFeatures(suspicious_keywords, suspicious_domains,
                  email_content \o Repeat(<<" ">> \o suspicious_keywords[k], n),
                  email_subject, <<>>, <<>>))
    /\ UNCHANGED <<lexicons, service_vars, hist, thread_vars>>

TakeRepeated ==
    /\ op = "extract_repeated"
    /\ op' = "idle"
    /\ req' = <<>>
    /\ ret' = NoRet
    /\ before' = <<>>
    /\ UNCHANGED <<lexicons, service_vars, hist, thread_vars>>

NextRepeat ==
    \/ \E t \in KeywordTexts :
         \E k \in 1..Len(suspicious_keywords), n \in 1..MaxCopies :
            extract_repeated(t[1], t[2], k, n)
    \/ TakeRepeated

SpecRepeat == Init /\ [][NextRepeat]_vars

\* C12 as stated: the count is the number of distinct lexicon entries found in
\* the lower-cased "subject + space + body", at most 20, an entry that contains
\* other entries counting them too, and writing an entry that is already present
\* again never changes the count.
C12_Keywords ==
    op = "extract_repeated" =>
        LET text == FullText(req.email_content \o req.repeated, req.email_subject)
            count == Get(ret.value, "suspicious_keywords_count")
        IN  /\ count = Cardinality({suspicious_keywords[k] : k \in Present(text)})
            /\ count <= 20
            /\ Contains(text, <<"v","e","r","i","f","y"," ","y","o","u","r"," ","a","c","c","o","u","n","t">>) => count >= 3
            /\ count = Get(before, "suspicious_keywords_count")

\* C12, amended: as above, but writing an entry that is already present again
\* never lowers the count and adds to it exactly the entries that the new text
\* forms with what stands before it.
C12_KeywordsAmended ==
    op = "extract_repeated" =>
        LET old == FullText(req.email_content, req.email_subject)
            text == FullText(req.email_content \o req.repeated, req.email_subject)
            count == Get(ret.value, "suspicious_keywords_count")
        IN  /\ count = Cardinality({suspicious_keywords[k] : k \in Present(text)})
            /\ count <= 20
            /\ Contains(text, <<"v","e","r","i","f","y"," ","y","o","u","r"," ","a","c","c","o","u","n","t">>) => count >= 3
            /\ Present(old) \subseteq Present(text)
            /\ count = Get(before, "suspicious_keywords_count")
                         + Cardinality(Present(text) \ Present(old))

\* a text that holds "verify your account" and so counts three entries, counted
\* the same after one of them was written twice more
C12_Witness ==
    /\ op = "extract_repeated"
    /\ Contains(FullText(req.email_content, req.email_subject), <<"v","e","r","i","f","y"," ","y","o","u","r"," ","a","c","c","o","u","n","t">>)
    /\ Len(req.repeated) > 2 * Len(<<" ","a","c","c","o","u","n","t">>)
    /\ Get(before, "suspicious_keywords_count") >= 3
    /\ Get(ret.value, "suspicious_keywords_count") = Get(before, "suspicious_keywords_count")

(***************************************************************************)
(* The same e-mail sent to two recipients: extract_features twice, and       *)
(* detect_email twice, on arguments that differ in to_address only           *)
(***************************************************************************)
Recipients == { <<>>, <<"u","s","e","r","@","e","m","a","i","l",".","c","o","m">>, <<"m","e","@","g","m","a","i","l",".","c","o","m">> }

PairBodies == { <<>>, <<"U","R","G","E","N","T","!"," ","h","t","t","p",":","/","/","b","i","t",".","l","y","/","x">>, AnchorTab, <<"v","e","r","i","f","y"," ","y","o","u","r"," ","a","c","c","o","u","n","t">> }

PairArgs ==
    {Args(c, s, f, t) : c \in PairBodies, s \in Subjects, f \in {<<>>, <<"a","@","g","m","a","i","l",".","c","o","m">>},
                        t \in Recipients}

\* the two calls
Pair(a, to_address) == [first |-> a, second |-> [a EXCEPT !.to_address = to_address]]

\* detector.extract_features(...) for each of the two
extract_pair(a, to_address) ==
    /\ op = "idle"
    /\ op' = "extract_pair"
    /\ req' = Pair(a, to_address)
    /\ before' = ExtractFeatures(suspicious_keywords, suspicious_domains, a.email_content,
                     a.email_subject, a.from_address, a.to_address)
    /\ ret' = Returned(ExtractFeatures(suspicious_keywords, suspicious_domains,
                  a.email_content, a.email_subject, a.from_address, to_address))
    /\ UNCHANGED <<lexicons, service_vars, hist, thread_vars>>

\* detect_email(...) for each of the two; before holds the frames that the first
\* call handed to the classifier
detect_email_pair(a, to_address) ==
    /\ op = "idle"
    /\ op' = "detect_email_pair"
    /\ req' = Pair(a, to_address)
    /\ \E d1 \in DetectEmail(a), d2 \in DetectEmail([a EXCEPT !.to_address = to_address]) :
         /\ before' = d1.predicted
         /\ ret' = d2.ret
         /\ predicted' = d2.predicted
         /\ loaded' = d2.loaded
    /\ UNCHANGED <<lexicons, model_file, feature_names_file, train_pc, hist, thread_vars>>

TakePair ==
    /\ op \in {"extract_pair", "detect_email_pair"}
    /\ op' = "idle"
    /\ req' = <<>>
    /\ ret' = NoRet
    /\ before' = <<>>
    /\ predicted' = <<>>
    /\ loaded' = FALSE
    /\ UNCHANGED <<lexicons, model_file, feature_names_file, train_pc, hist, thread_vars>>

NextPair ==
    \/ train_save_model
    \/ train_save_names
    \/ \E a \in PairArgs, t \in Recipients : extract_pair(a, t)
    \/ \E a \in PairArgs, t \in Recipients : detect_email_pair(a, t)
    \/ TakePair

SpecPair == Init /\ [][NextPair]_vars

\* C14: two extract_features calls that differ in to_address only return the same
\* vector, and two detect_email calls that differ in to_address only hand the
\* same frames to the classifier.
C14_ToAddress ==
    /\ op = "extract_pair" => ret.value = before
    /\ op = "detect_email_pair" =>
         /\ predicted = before
         /\ model_file.exists =>
              /\ Len(predicted) = 2
              /\ DataFrame(ret.value.features) = DataFrame(
                     ExtractFeatures(InitKeywords, InitDomains, req.first.email_content,
                         req.first.email_subject, req.first.from_address, <<>>))

\* detect_email classified the same e-mail for two different recipients, one of
\* them at a common provider, with no sender given
C14_Witness ==
    /\ op = "detect_email_pair"
    /\ req.first.to_address # req.second.to_address
    /\ req.second.to_address = <<"m","e","@","g","m","a","i","l",".","c","o","m">>
    /\ req.first.from_address = <<>>
    /\ model_file.exists
    /\ Len(predicted) = 2

====
